---- MODULE Spec2Model ----
(***************************************************************************)
(* A model of the description generator's four request handlers: generate  *)
(* (api/generate.js) with its two process-local maps, the rate limiter and *)
(* the response cache; unsubscribe, health and privacy; and behind them    *)
(* the leads table and the email provider.  One handler invocation is a    *)
(* sequence of atomic segments, cut at the handler's awaits (JavaScript    *)
(* runs each segment to completion); several invocations interleave at     *)
(* those awaits.                                                           *)
(*                                                                         *)
(* Strings are sequences of one-character tokens; "NUL" stands for the     *)
(* control character \x00 and "\t" for the tab.                            *)
(***************************************************************************)
EXTENDS Integers, Sequences, FiniteSets, TLC

\* ------------------------------------------------------------------ bounds

\* Handler invocations that may be in flight at the same time.
MaxInflight == 2
\* Requests received in one run of Spec.
MaxReqs == 2
\* Requests received in one run of LimitSpec: enough for one client to pass
\* RATE_LIMIT_MAX_REQUESTS.
MaxBurst == 6
\* Short clock steps (of TickMs) in one run; a pending LLM timer may still
\* take one more to reach its due time.
MaxTicks == 2
\* Long clock steps (of JumpMs) in one run.
MaxJumps == 1

\* --------------------------------------------------------- program constants

Second == 1000
RATE_LIMIT_WINDOW == 60 * 1000
RATE_LIMIT_MAX_REQUESTS == 5
CACHE_TTL == 5 * 60 * 1000
LLM_TIMEOUT == 30000
NAME_MAX == 100
FEATURES_MAX == 2000
KEY_FEATURES_MAX == 200

\* One step of the clock: the largest unit that divides the three windows.
TickMs == 30 * Second
\* A long step: one tick short of the cache's lifetime.
JumpMs == CACHE_TTL - TickMs

\* ------------------------------------------------------------------ strings

Whitespace == {" ", "\t"}
ControlChars == {"NUL", "\t"}
HtmlChars == {"<", ">"}
Upper == {"A", "B", "M", "X"}
LowerOf(c) ==
  CASE c = "A" -> "a" [] c = "B" -> "b" [] c = "M" -> "m" [] c = "X" -> "x"
    [] OTHER -> c

RECURSIVE TrimLeft(_)
TrimLeft(s) ==
  IF s = <<>> THEN <<>>
  ELSE IF Head(s) \in Whitespace THEN TrimLeft(Tail(s)) ELSE s

RECURSIVE TrimRight(_)
TrimRight(s) ==
  IF s = <<>> THEN <<>>
  ELSE IF s[Len(s)] \in Whitespace THEN TrimRight(SubSeq(s, 1, Len(s) - 1)) ELSE s

\* String.prototype.trim
Trim(s) == TrimRight(TrimLeft(s))

\* String.prototype.toLowerCase
ToLowerCase(s) == [i \in 1..Len(s) |-> LowerOf(s[i])]

\* String.prototype.slice(0, n)
Slice0(s, n) == IF Len(s) <= n THEN s ELSE SubSeq(s, 1, n)

\* text.replace(/[...]/g, ''): drop every character of the class
RemoveChars(s, class) == SelectSeq(s, LAMBDA c : c \notin class)

\* sanitizeText of validateAndSanitizeInput
sanitizeText(text) == Trim(RemoveChars(RemoveChars(text, ControlChars), HtmlChars))

\* ---------------------------------------------------------- JavaScript values

Undefined == [t |-> "undefined"]
Num42 == [t |-> "number"]
Str(s) == [t |-> "string", v |-> s]
IsString(x) == x.t = "string"
\* !x
Falsy(x) == x.t = "undefined" \/ (x.t = "string" /\ x.v = <<>>)

\* ------------------------------------------------------------- email regex

Letters == {"a", "b", "m", "x", "A", "B", "M", "X"}
Digits == {"0", "1"}
LocalChars == Letters \cup Digits \cup
  {".", "!", "#", "$", "%", "&", "'", "+", "/", "=", "?", "^", "_", "~", "-"}
DomainChars == Letters \cup Digits \cup {"-"}

\* The domain part of emailRegex: non-empty labels of DomainChars separated
\* by single dots.
DomainMatches(d) ==
  /\ Len(d) >= 1
  /\ \A i \in 1..Len(d) : d[i] \in DomainChars \cup {"."}
  /\ d[1] # "." /\ d[Len(d)] # "."
  /\ \A i \in 1..(Len(d) - 1) : ~(d[i] = "." /\ d[i + 1] = ".")

\* emailRegex.test(s)
emailRegexTest(s) ==
  \E i \in 1..Len(s) :
    /\ s[i] = "@"
    /\ i >= 2
    /\ \A j \in 1..(i - 1) : s[j] \in LocalChars
    /\ DomainMatches(SubSeq(s, i + 1, Len(s)))

\* --------------------------------------------------------------- validation

\* validateAndSanitizeInput(data): "throw" where the JavaScript raises a
\* TypeError (destructuring an undefined body, .trim of a non-string).
validateAndSanitizeInput(data) ==
  IF data = Undefined THEN [outcome |-> "throw"]
  ELSE IF Falsy(data.email)
    THEN [outcome |-> "invalid", error |-> "Invalid email address format"]
  ELSE IF ~IsString(data.email) THEN [outcome |-> "throw"]
  ELSE IF ~emailRegexTest(Trim(data.email.v))
    THEN [outcome |-> "invalid", error |-> "Invalid email address format"]
  ELSE IF Falsy(data.productName) \/ ~IsString(data.productName)
    THEN [outcome |-> "invalid", error |-> "Product name is required and must be text"]
  ELSE IF Falsy(data.productFeatures) \/ ~IsString(data.productFeatures)
    THEN [outcome |-> "invalid", error |-> "Product features are required and must be text"]
  ELSE
    LET cleanProductName == Slice0(Trim(data.productName.v), NAME_MAX)
        cleanProductFeatures == Slice0(Trim(data.productFeatures.v), FEATURES_MAX)
        cleanEmail == ToLowerCase(Trim(data.email.v))
    IN  IF cleanProductName = <<>>
          THEN [outcome |-> "invalid", error |-> "Product name cannot be empty"]
        ELSE IF cleanProductFeatures = <<>>
          THEN [outcome |-> "invalid", error |-> "Product features cannot be empty"]
        ELSE [outcome |-> "valid",
              data |-> [productName |-> sanitizeText(cleanProductName),
                        productFeatures |-> sanitizeText(cleanProductFeatures),
                        email |-> sanitizeText(cleanEmail)]]

\* A key of the whole of the features.
getCacheKey_NoSlice(productName, productFeatures) ==
  Trim(ToLowerCase(productName)) \o <<":">> \o Trim(ToLowerCase(productFeatures))

\* getCacheKey(productName, productFeatures): normalized name, ":", normalized features
getCacheKey(productName, productFeatures) ==
  Trim(ToLowerCase(productName)) \o <<":">>
    \o Slice0(Trim(ToLowerCase(productFeatures)), KEY_FEATURES_MAX)

\* ------------------------------------------------------------- rate limiter

\* requests.filter(timestamp => now - timestamp < RATE_LIMIT_WINDOW)
FilterValid(timestamps, t) ==
  SelectSeq(timestamps, LAMBDA ts : t - ts < RATE_LIMIT_WINDOW)

\* The 1% branch of checkRateLimit: drop expired timestamps of every key,
\* delete the keys left with none.
SweepRateLimitMap(map, t) ==
  [k \in {k \in DOMAIN map : FilterValid(map[k], t) # <<>>} |-> FilterValid(map[k], t)]

\* A limiter that lets the request in when the limit is met, not exceeded.
LimitReached_OffByOne(validRequests) == Len(validRequests) > RATE_LIMIT_MAX_REQUESTS

\* The admission test of checkRateLimit.
LimitReached(validRequests) == Len(validRequests) >= RATE_LIMIT_MAX_REQUESTS

\* A limiter that records the request before it tests the limit.
checkRateLimit_PushFirst(map, ip, t, sweep) ==
  LET requests == IF ip \in DOMAIN map THEN map[ip] ELSE <<>>
      validRequests == FilterValid(requests, t)
      pushed == [k \in DOMAIN map \cup {ip} |->
                   IF k = ip THEN Append(validRequests, t) ELSE map[k]]
  IN  IF LimitReached(validRequests)
        THEN [ok |-> FALSE, map |-> pushed]
        ELSE [ok |-> TRUE,
              map |-> IF sweep THEN SweepRateLimitMap(pushed, t) ELSE pushed]

\* checkRateLimit(ip) at time t on the map; sweep is Math.random() < 0.01.
\* Returns the verdict and the map it leaves.
checkRateLimit(map, ip, t, sweep) ==
  LET requests == IF ip \in DOMAIN map THEN map[ip] ELSE <<>>
      validRequests == FilterValid(requests, t)
      pushed == [k \in DOMAIN map \cup {ip} |->
                   IF k = ip THEN Append(validRequests, t) ELSE map[k]]
  IN  IF LimitReached(validRequests)
        THEN [ok |-> FALSE, map |-> map]
        ELSE [ok |-> TRUE,
              map |-> IF sweep THEN SweepRateLimitMap(pushed, t) ELSE pushed]

\* ----------------------------------------------------------- response cache

\* A cleaner that deletes nothing.
cleanCache_KeepsAll(cache, t) == cache

\* cleanCache() at time t
cleanCache(cache, t) ==
  [k \in {k \in DOMAIN cache : ~(t - cache[k].timestamp > CACHE_TTL)} |-> cache[k]]

\* A lookup that never finds an entry.
CacheHit_Never(cache, key, t) == FALSE

\* A lookup that still serves an entry of exactly CACHE_TTL.
CacheHit_Inclusive(cache, key, t) ==
  key \in DOMAIN cache /\ t - cache[key].timestamp <= CACHE_TTL

\* cachedItem && (Date.now() - cachedItem.timestamp < CACHE_TTL)
CacheHit(cache, key, t) ==
  key \in DOMAIN cache /\ t - cache[key].timestamp < CACHE_TTL

\* responseCache.set(cacheKey, { description: description.trim(), timestamp: Date.now() })
CacheSet(cache, key, description, t) ==
  [k \in DOMAIN cache \cup {key} |->
     IF k = key THEN [description |-> Trim(description), timestamp |-> t]
     ELSE cache[k]]

\* ------------------------------------------------------------------- inputs

Slots == 1..MaxInflight
Methods == {"POST", "GET"}
IPs == {"ip1", "ip2"}

EmailA == <<"a", "@", "x", ".", "a">>
EmailB == <<" ", "B", "@", "x">>
\* Request bodies: two that normalize to the same cache key, one with markup
\* and another key, one with a malformed email, and no body at all.
BodyA ==
  [productName |-> Str(<<"A", "b">>), productFeatures |-> Str(<<"x", "m">>),
   email |-> Str(EmailA)]
BodyB ==
  [productName |-> Str(<<" ", "a", "B">>), productFeatures |-> Str(<<"X", "M", "\t">>),
   email |-> Str(EmailB)]
BodyC ==
  [productName |-> Str(<<"m", "<", "b", ">">>), productFeatures |-> Str(<<"a">>),
   email |-> Str(EmailA)]
BodyBadEmail ==
  [productName |-> Str(<<"A", "b">>), productFeatures |-> Str(<<"x", "m">>),
   email |-> Str(<<"a", " ", "b">>)]
\* A body as BodyA with a "+" in its email
BodyPlusEmail ==
  [productName |-> Str(<<"A", "b">>), productFeatures |-> Str(<<"x", "m">>),
   email |-> Str(<<"a", "+", "b", "@", "x", ".", "a">>)]
ValidBodies == {BodyA, BodyB, BodyC}
BurstBodies == {BodyA, BodyBadEmail, Undefined}
Bodies == ValidBodies \cup BurstBodies

\* validateAndSanitizeInput on each body
Validated == [b \in Bodies \cup {BodyPlusEmail} |-> validateAndSanitizeInput(b)]

\* What response.text() may return for a prompt: a text about it with
\* surrounding blanks, blanks only, or nothing.
LLMTexts(prompt) == { <<" ">> \o prompt \o <<"\t">>, <<" ">>, <<>> }

\* -------------------------------------------------------------------- state

VARIABLES
  now,            \* Date.now(), in milliseconds
  rateLimitMap,   \* ip -> timestamps of its admitted requests
  responseCache,  \* cache key -> [description, timestamp]
  stripeLink,     \* whether process.env.STRIPE_CHECKOUT_LINK is set
  req,            \* per slot: the handler invocation in flight there
  resp,           \* the invocation that answered in the last step, if one did
  admitted,       \* history: ip -> times at which checkRateLimit returned true
  nreq,           \* requests received so far
  ticks,          \* short clock steps taken
  jumps,          \* long clock steps taken
  env,            \* which of the services' environment variables are set
  leads,          \* the leads table: email -> [product_name, unsubscribed]
  scheduled,      \* follow-up emails the provider holds for later delivery
  delivered,      \* the follow-up email the provider delivered in the last step
  optedOut,       \* history: addresses answered 200 by unsubscribe since they last submitted the form
  unsub,          \* the unsubscribe invocation in flight
  health,         \* the health invocation in flight
  sresp,          \* the response unsubscribe, health or privacy sent in the last step
  probe           \* two request bodies and what validation and keying made of them

\* The state of the other handlers and of the stores behind the providers
others == <<env, leads, scheduled, delivered, optedOut, unsub, health, sresp, probe>>

vars == <<now, rateLimitMap, responseCache, stripeLink, req, resp, admitted,
          nreq, ticks, jumps, others>>

NoData == [productName |-> <<>>, productFeatures |-> <<>>, email |-> <<>>]
NoItem == [description |-> <<>>, timestamp |-> 0]

\* An invocation: where it stands (pc), what it validated and looked up, the
\* external calls it has made in order (calls) and, once it has answered, its
\* response and whether a throw of the upsert or of a send led to it.
IdleReq ==
  [pc |-> "idle", data |-> NoData, cacheKey |-> <<>>,
   cachedItem |-> NoItem, llmStart |-> 0, description |-> <<>>,
   calls |-> <<>>, dbThrew |-> FALSE, emailThrew |-> FALSE,
   status |-> 0, via |-> "none", body |-> <<>>, error |-> ""]

\* process.env as the handlers read it: whether the database credentials
\* (SUPABASE_URL and SUPABASE_SERVICE_KEY), GEMINI_API_KEY and RESEND_API_KEY
\* are set
AllConfigured == [database |-> TRUE, gemini_api |-> TRUE, resend_api |-> TRUE]

NoMail == [to |-> <<>>, kind |-> "none", at |-> 0]
IdleUnsub ==
  [pc |-> "idle", method |-> "none", email |-> <<>>, status |-> 0, state |-> "none"]
IdleHealth == [pc |-> "idle"]
NoSiteResp ==
  [handler |-> "none", method |-> "none", status |-> 0, state |-> "none",
   email |-> <<>>, outcome |-> "none", services |-> << >>]
NoProbe == [phase |-> "none"]

\* The other handlers at rest, the stores empty, every service configured
OthersIdle ==
  /\ env = AllConfigured
  /\ leads = << >>
  /\ scheduled = {}
  /\ delivered = NoMail
  /\ optedOut = {}
  /\ unsub = IdleUnsub
  /\ health = IdleHealth
  /\ sresp = NoSiteResp
  /\ probe = NoProbe

\* The generate module after load
GenerateLoaded ==
  /\ now = 0
  /\ rateLimitMap = << >>
  /\ responseCache = << >>
  /\ req = [r \in Slots |-> IdleReq]
  /\ resp = IdleReq
  /\ admitted = [ip \in IPs |-> <<>>]
  /\ nreq = 0
  /\ ticks = 0
  /\ jumps = 0

Init ==
  /\ GenerateLoaded
  /\ stripeLink \in BOOLEAN
  /\ OthersIdle

\* ------------------------------------------------------------ external calls

UpsertCall(data) ==
  [svc |-> "db", kind |-> "upsert", to |-> data.email, text |-> data.productName]

\* getLLMPrompt(productName, productFeatures): both values, in this order
getLLMPrompt(productName, productFeatures) == productName \o <<"|">> \o productFeatures

LLMCall(data) ==
  [svc |-> "llm", kind |-> "generateContent", to |-> <<>>,
   text |-> getLLMPrompt(data.productName, data.productFeatures)]

\* resend.emails.send of emailTemplates[kind]; only the immediate email
\* carries the description
EmailCall(kind, email, description) ==
  [svc |-> "email", kind |-> kind, to |-> email,
   text |-> IF kind = "immediate" THEN description ELSE <<>>]

\* res.status(200).json({ description }): via names the path that answered
Respond200(rec, description, via, t) ==
  [rec EXCEPT !.pc = "done", !.status = 200, !.body = description, !.via = via]

\* res.status(status).json({ error })
RespondError(rec, status, error, via, t) ==
  [rec EXCEPT !.pc = "done", !.status = status, !.error = error, !.via = via]

GenericError == "An error occurred while generating your description."

\* ------------------------------------------------------------------ handler

\* The handler's first segment, up to its first await, at time t on the two
\* maps: method check, rate limiting, validation, cache cleaning and lookup,
\* and the lead upsert it then starts.  Returns the invocation and the maps.
HandlerStart(method, ip, body, sweep, map, cache, t) ==
  LET new == IdleReq
      rl == checkRateLimit(map, ip, t, sweep)
      v == Validated[body]
      same == [map |-> map, cache |-> cache, admitted |-> FALSE]
  IN  IF method # "POST"
        THEN [rec |-> RespondError(new, 405, "Method Not Allowed", "method", t)] @@ same
      ELSE IF ~rl.ok
        THEN [rec |-> RespondError(new, 429, "Too many requests. Please try again later.",
                                   "ratelimit", t),
              map |-> rl.map, cache |-> cache, admitted |-> FALSE]
      ELSE IF v.outcome = "throw"
        THEN [rec |-> RespondError(new, 500, GenericError, "validate_throw", t),
              map |-> rl.map, cache |-> cache, admitted |-> TRUE]
      ELSE IF v.outcome = "invalid"
        THEN [rec |-> RespondError(new, 400, v.error, "invalid", t),
              map |-> rl.map, cache |-> cache, admitted |-> TRUE]
      ELSE
        LET key == getCacheKey(v.data.productName, v.data.productFeatures)
            cleaned == cleanCache(cache, t)
            hit == CacheHit(cleaned, key, t)
        IN  [rec |-> [new EXCEPT !.pc = IF hit THEN "hit_db" ELSE "miss_db",
                                 !.data = v.data,
                                 !.cacheKey = key,
                                 !.cachedItem = IF hit THEN cleaned[key] ELSE NoItem,
                                 !.calls = <<UpsertCall(v.data)>>],
             map |-> rl.map, cache |-> cleaned, admitted |-> TRUE]

\* Cache-hit path, the awaited upsert settles: a throw is caught and skips
\* the email; otherwise the immediate email with the cached description is sent.
OnHitDbSettle(rec, outcome, t) ==
  IF outcome = "throw"
    THEN Respond200([rec EXCEPT !.dbThrew = TRUE],
                    Trim(rec.cachedItem.description), "hit", t)
    ELSE [rec EXCEPT !.pc = "hit_email",
                     !.calls = Append(@, EmailCall("immediate", rec.data.email,
                                                   rec.cachedItem.description))]

\* Cache-hit path, the awaited send settles: its throw is caught.
OnHitEmailSettle(rec, outcome, t) ==
  Respond200([rec EXCEPT !.emailThrew = (outcome = "throw")],
             Trim(rec.cachedItem.description), "hit", t)

\* STEP 1 settles: an error value is only logged, a throw reaches the outer
\* catch; otherwise STEP 2 starts the LLM call and its 30 s timer.
OnMissDbSettle(rec, outcome, t) ==
  IF outcome = "throw"
    THEN RespondError([rec EXCEPT !.dbThrew = TRUE], 500, GenericError, "db_throw", t)
    ELSE [rec EXCEPT !.pc = "llm", !.llmStart = t,
                     !.calls = Append(@, LLMCall(rec.data))]

\* !description || description.trim().length === 0
InvalidDescription(text) == text = <<>> \/ Len(Trim(text)) = 0

\* A handler that does not await the immediate send before the next one.
OnLLMResolve_NoAwait(rec, text, t) ==
  IF InvalidDescription(text)
    THEN RespondError(rec, 500, GenericError, "llm_empty", t)
    ELSE [rec EXCEPT !.pc = "email1", !.description = text, !.llmStart = 0,
                     !.calls = @ \o <<EmailCall("immediate", rec.data.email, text),
                                      EmailCall("twoHour", rec.data.email, <<>>)>>]

\* The LLM call resolves first with text: an empty or blank text is thrown to
\* the outer catch; otherwise STEP 3 sends the immediate email (the cache is
\* set by the action).
OnLLMResolve(rec, text, t) ==
  IF InvalidDescription(text)
    THEN RespondError(rec, 500, GenericError, "llm_empty", t)
    ELSE [rec EXCEPT !.pc = "email1", !.description = text, !.llmStart = 0,
                     !.calls = Append(@, EmailCall("immediate", rec.data.email, text))]

\* A handler that stores whatever text the LLM call resolved with.
CacheAfterLLM_StoresAny(cache, key, text, t) == CacheSet(cache, key, text, t)

\* The cache after the LLM call resolved with text
CacheAfterLLM(cache, key, text, t) ==
  IF InvalidDescription(text) THEN cache ELSE CacheSet(cache, key, text, t)

\* The LLM call rejects first: the outer catch answers.
OnLLMReject(rec, t) == RespondError(rec, 500, GenericError, "llm_throw", t)

\* A handler that awaits the LLM call alone, with no timer to race it.
OnLLMTimeout_NoRace(rec, t) == rec

\* The 30 s timer rejects first: the outer catch answers.
OnLLMTimeout(rec, t) == RespondError(rec, 500, GenericError, "llm_timeout", t)

\* A handler that sends the offer whether or not a checkout link is set.
OnMissEmailSettle_AlwaysOffer(rec, outcome, stripe, t) ==
  IF outcome = "throw"
    THEN Respond200([rec EXCEPT !.emailThrew = TRUE], Trim(rec.description), "miss", t)
  ELSE IF rec.pc = "email1"
    THEN [rec EXCEPT !.pc = "email2",
                     !.calls = Append(@, EmailCall("twoHour", rec.data.email, <<>>))]
  ELSE IF rec.pc = "email2"
    THEN [rec EXCEPT !.pc = "email3",
                     !.calls = Append(@, EmailCall("sixHour", rec.data.email, <<>>))]
  ELSE Respond200(rec, Trim(rec.description), "miss", t)

\* A handler whose sends are outside the try block: a throw reaches the
\* outer catch.
OnMissEmailSettle_Uncaught(rec, outcome, stripe, t) ==
  IF outcome = "throw"
    THEN RespondError([rec EXCEPT !.emailThrew = TRUE], 500, GenericError, "email_throw", t)
  ELSE IF rec.pc = "email1"
    THEN [rec EXCEPT !.pc = "email2",
                     !.calls = Append(@, EmailCall("twoHour", rec.data.email, <<>>))]
  ELSE IF rec.pc = "email2" /\ stripe
    THEN [rec EXCEPT !.pc = "email3",
                     !.calls = Append(@, EmailCall("sixHour", rec.data.email, <<>>))]
  ELSE Respond200(rec, Trim(rec.description), "miss", t)

\* STEP 3: the sends of one try block settle in turn; a throw skips the rest.
OnMissEmailSettle(rec, outcome, stripe, t) ==
  IF outcome = "throw"
    THEN Respond200([rec EXCEPT !.emailThrew = TRUE], Trim(rec.description), "miss", t)
  ELSE IF rec.pc = "email1"
    THEN [rec EXCEPT !.pc = "email2",
                     !.calls = Append(@, EmailCall("twoHour", rec.data.email, <<>>))]
  ELSE IF rec.pc = "email2" /\ stripe
    THEN [rec EXCEPT !.pc = "email3",
                     !.calls = Append(@, EmailCall("sixHour", rec.data.email, <<>>))]
  ELSE Respond200(rec, Trim(rec.description), "miss", t)

\* ------------------------------------------------------------------ actions

\* The invocation in slot r stands at rec: if it has answered, the slot is
\* free again and rec is this step's response.
Continue(r, rec) ==
  /\ req' = [req EXCEPT ![r] = IF rec.pc = "done" THEN IdleReq ELSE rec]
  /\ resp' = IF rec.pc = "done" THEN rec ELSE IdleReq

\* Slots are interchangeable: a request takes the first free one.
FirstFree(r) ==
  /\ req[r].pc = "idle"
  /\ \A q \in Slots : q < r => req[q].pc # "idle"

DbOutcomes == {"ok", "error", "throw"}
EmailOutcomes == {"ok", "throw"}

\* A request arrives and the handler runs to its first await.
StartStep(r, method, ip, body, sweep) ==
  /\ FirstFree(r)
  /\ LET h == HandlerStart(method, ip, body, sweep, rateLimitMap, responseCache, now)
     IN  /\ rateLimitMap' = h.map
         /\ responseCache' = h.cache
         /\ admitted' = IF h.admitted THEN [admitted EXCEPT ![ip] = Append(@, now)]
                        ELSE admitted
         /\ Continue(r, h.rec)
  /\ nreq' = nreq + 1
  /\ UNCHANGED <<now, stripeLink, ticks, jumps>>

Start(r, method, ip, body, sweep) == StartStep(r, method, ip, body, sweep) /\ UNCHANGED others

HitDbSettleStep(r, outcome) ==
  /\ req[r].pc = "hit_db"
  /\ Continue(r, OnHitDbSettle(req[r], outcome, now))
  /\ UNCHANGED <<now, rateLimitMap, responseCache, stripeLink, admitted, nreq, ticks, jumps>>

HitDbSettle(r, outcome) == HitDbSettleStep(r, outcome) /\ UNCHANGED others

HitEmailSettleStep(r, outcome) ==
  /\ req[r].pc = "hit_email"
  /\ Continue(r, OnHitEmailSettle(req[r], outcome, now))
  /\ UNCHANGED <<now, rateLimitMap, responseCache, stripeLink, admitted, nreq, ticks, jumps>>

HitEmailSettle(r, outcome) == HitEmailSettleStep(r, outcome) /\ UNCHANGED others

MissDbSettleStep(r, outcome) ==
  /\ req[r].pc = "miss_db"
  /\ Continue(r, OnMissDbSettle(req[r], outcome, now))
  /\ UNCHANGED <<now, rateLimitMap, responseCache, stripeLink, admitted, nreq, ticks, jumps>>

MissDbSettle(r, outcome) == MissDbSettleStep(r, outcome) /\ UNCHANGED others

LLMResolveStep(r, text) ==
  /\ req[r].pc = "llm"
  /\ responseCache' = CacheAfterLLM(responseCache, req[r].cacheKey, text, now)
  /\ Continue(r, OnLLMResolve(req[r], text, now))
  /\ UNCHANGED <<now, rateLimitMap, stripeLink, admitted, nreq, ticks, jumps>>

LLMResolve(r, text) == LLMResolveStep(r, text) /\ UNCHANGED others

LLMRejectStep(r) ==
  /\ req[r].pc = "llm"
  /\ Continue(r, OnLLMReject(req[r], now))
  /\ UNCHANGED <<now, rateLimitMap, responseCache, stripeLink, admitted, nreq, ticks, jumps>>

LLMReject(r) == LLMRejectStep(r) /\ UNCHANGED others

\* The admissions a window ending at t or later can still hold: those after
\* t - RATE_LIMIT_WINDOW.
Recent(times, t) == SelectSeq(times, LAMBDA a : a > t - RATE_LIMIT_WINDOW)

\* A pending LLM timer that is due
TimerDue(r) == req[r].pc = "llm" /\ now - req[r].llmStart >= LLM_TIMEOUT

LLMTimeoutStep(r) ==
  /\ TimerDue(r)
  /\ Continue(r, OnLLMTimeout(req[r], now))
  /\ UNCHANGED <<now, rateLimitMap, responseCache, stripeLink, admitted, nreq, ticks, jumps>>

LLMTimeout(r) == LLMTimeoutStep(r) /\ UNCHANGED others

MissEmailSettleStep(r, outcome) ==
  /\ req[r].pc \in {"email1", "email2", "email3"}
  /\ Continue(r, OnMissEmailSettle(req[r], outcome, stripeLink, now))
  /\ UNCHANGED <<now, rateLimitMap, responseCache, stripeLink, admitted, nreq, ticks, jumps>>

MissEmailSettle(r, outcome) == MissEmailSettleStep(r, outcome) /\ UNCHANGED others

\* Time passes by one tick.  A due timer fires before the clock moves on; a
\* pending timer may take the clock one tick past the bound, to its due time.
TickStep ==
  /\ \A r \in Slots : ~TimerDue(r)
  /\ ticks < MaxTicks \/ \E r \in Slots : req[r].pc = "llm"
  /\ now' = now + TickMs
  /\ ticks' = ticks + 1
  /\ resp' = IdleReq
  /\ admitted' = [ip \in IPs |-> Recent(admitted[ip], now')]
  /\ UNCHANGED <<rateLimitMap, responseCache, stripeLink, req, nreq, jumps>>

Tick == TickStep /\ UNCHANGED others

\* A long quiet period, with no invocation in flight.
JumpStep ==
  /\ jumps < MaxJumps
  /\ \A r \in Slots : req[r].pc = "idle"
  /\ now' = now + JumpMs
  /\ jumps' = jumps + 1
  /\ resp' = IdleReq
  /\ admitted' = [ip \in IPs |-> Recent(admitted[ip], now')]
  /\ UNCHANGED <<rateLimitMap, responseCache, stripeLink, req, nreq, ticks>>

Jump == JumpStep /\ UNCHANGED others

\* The handler's continuations and the clock
Settle ==
  \/ \E r \in Slots, outcome \in DbOutcomes : HitDbSettle(r, outcome)
  \/ \E r \in Slots, outcome \in EmailOutcomes : HitEmailSettle(r, outcome)
  \/ \E r \in Slots, outcome \in DbOutcomes : MissDbSettle(r, outcome)
  \/ \E r \in Slots :
       \E text \in LLMTexts(getLLMPrompt(req[r].data.productName,
                                        req[r].data.productFeatures)) :
         LLMResolve(r, text)
  \/ \E r \in Slots : LLMReject(r)
  \/ \E r \in Slots : LLMTimeout(r)
  \/ \E r \in Slots, outcome \in EmailOutcomes : MissEmailSettle(r, outcome)
  \/ Tick

\* Spec: a few valid requests of one client, over a period long enough for
\* cache entries to expire.
Next ==
  \/ /\ nreq < MaxReqs
     /\ \E r \in Slots, body \in ValidBodies, sweep \in BOOLEAN :
          Start(r, "POST", "ip1", body, sweep)
  \/ Settle
  \/ Jump

Spec == Init /\ [][Next]_vars

\* LimitSpec: a burst of requests of two clients, by any method, with valid
\* and invalid bodies, handled one at a time, over a period long enough for
\* the rate-limit window to pass; STRIPE_CHECKOUT_LINK is not set.
InitLimits == Init /\ stripeLink = FALSE

NextLimits ==
  \/ /\ nreq < MaxBurst
     /\ \E method \in Methods, ip \in IPs, body \in BurstBodies, sweep \in BOOLEAN :
          Start(1, method, ip, body, sweep)
  \/ Settle

LimitSpec == InitLimits /\ [][NextLimits]_vars

\* FairSpec: requests for one product, where the clock keeps running while
\* it may, a due timer fires, and the database and the email provider settle
\* every call (nothing is assumed of the LLM provider, nor of requests
\* arriving).
NextFair ==
  \/ /\ nreq < MaxReqs
     /\ \E r \in Slots, sweep \in BOOLEAN : Start(r, "POST", "ip1", BodyA, sweep)
  \/ Settle
  \/ Jump

Fairness ==
  /\ WF_vars(Tick)
  /\ \A r \in Slots :
       /\ WF_vars(LLMTimeout(r))
       /\ WF_vars(\E outcome \in DbOutcomes : HitDbSettle(r, outcome))
       /\ WF_vars(\E outcome \in DbOutcomes : MissDbSettle(r, outcome))
       /\ WF_vars(\E outcome \in EmailOutcomes : HitEmailSettle(r, outcome))
       /\ WF_vars(\E outcome \in EmailOutcomes : MissEmailSettle(r, outcome))

FairSpec == Init /\ [][NextFair]_vars /\ Fairness

\* ------------------------------------------------- stores behind the providers

TwoHours == 2 * 60 * 60 * 1000
SixHours == 6 * 60 * 60 * 1000

\* The leads table after the upsert of the generate handler settled: a new
\* row, or the product name of the row of that email; the other columns of
\* an existing row stay.
LeadsAfterUpsert(table, data, outcome) ==
  IF outcome # "ok" THEN table
  ELSE [e \in DOMAIN table \cup {data.email} |->
          IF e = data.email
            THEN [product_name |-> data.productName,
                  unsubscribed |-> IF e \in DOMAIN table THEN table[e].unsubscribed
                                   ELSE FALSE]
            ELSE table[e]]

\* The leads table after update({ unsubscribed: true }).eq('email', email) settled
LeadsAfterUnsubscribe(table, email, outcome) ==
  IF outcome # "ok" THEN table
  ELSE [e \in DOMAIN table |->
          IF e = email THEN [table[e] EXCEPT !.unsubscribed = TRUE] ELSE table[e]]

\* The delay of a send with scheduled_at, by the template it sends
DelayOf(kind) == IF kind = "twoHour" THEN TwoHours ELSE SixHours

\* What the email provider holds once a send settled at time t: a send with
\* scheduled_at that it accepted is kept for delivery at that time.
ScheduledAfterSend(held, call, outcome, t) ==
  IF outcome = "ok" /\ call.kind \in {"twoHour", "sixHour"}
    THEN held \cup {[to |-> call.to, kind |-> call.kind, at |-> t + DelayOf(call.kind)]}
    ELSE held

\* ------------------------------------------------------- unsubscribe handler

\* The emailRegex of the unsubscribe handler: no blank and one "@", with
\* something before it, and after it a dot with something on both sides.
unsubscribeRegexTest(s) ==
  /\ \A i \in 1..Len(s) : s[i] \notin Whitespace
  /\ \E i \in 2..Len(s) :
       /\ s[i] = "@"
       /\ \A j \in 1..Len(s) : s[j] = "@" => j = i
       /\ \E k \in (i + 2)..(Len(s) - 1) : s[k] = "."

\* A handler that takes every method but GET for a POST.
UnsubscribeStart_PostForAll(method, email) ==
  LET answer(status, state) ==
        [pc |-> "done", method |-> method,
         email |-> IF IsString(email) THEN email.v ELSE <<>>,
         status |-> status, state |-> state]
  IN  IF Falsy(email)
        THEN answer(400, IF method = "GET" THEN "Invalid unsubscribe link"
                         ELSE "Email is required")
      ELSE IF ~unsubscribeRegexTest(email.v)
        THEN IF method = "GET" THEN answer(500, "Unsubscribe Error")
             ELSE answer(400, "Invalid email format")
      ELSE [pc |-> "update", method |-> method, email |-> email.v,
            status |-> 0, state |-> "none"]

\* The handler up to its first await: the invocation, or its response.
UnsubscribeStart(method, email) ==
  LET answer(status, state) ==
        [pc |-> "done", method |-> method,
         email |-> IF IsString(email) THEN email.v ELSE <<>>,
         status |-> status, state |-> state]
  IN  IF method \notin {"GET", "POST"} THEN answer(405, "Method Not Allowed")
      ELSE IF Falsy(email)
        THEN answer(400, IF method = "GET" THEN "Invalid unsubscribe link"
                         ELSE "Email is required")
      ELSE IF ~unsubscribeRegexTest(email.v)
        THEN IF method = "GET" THEN answer(500, "Unsubscribe Error")
             ELSE answer(400, "Invalid email format")
      ELSE [pc |-> "update", method |-> method, email |-> email.v,
            status |-> 0, state |-> "none"]

\* The awaited update settles: a throw reaches the catch; an error value is
\* logged (GET) or not looked at (POST), and success is answered.
UnsubscribeSettle(inv, outcome) ==
  IF outcome = "throw"
    THEN [inv EXCEPT !.pc = "done", !.status = 500, !.state = "Unsubscribe Error"]
    ELSE [inv EXCEPT !.pc = "done", !.status = 200, !.state = "Successfully unsubscribed"]

\* ------------------------------------------------------------ health handler

\* healthCheck.services after the checks: dbStatus is what the database
\* check found
ServicesOf(environment, dbStatus) ==
  [database |-> dbStatus,
   gemini_api |-> IF environment.gemini_api THEN "ok" ELSE "not_configured",
   resend_api |-> IF environment.resend_api THEN "ok" ELSE "not_configured"]

\* The overall status.  No entry of services has a property named service:
\* the test for critical issues reads s.service.includes on the first entry
\* that is not_configured, which throws a TypeError to the catch.
HealthReport(services) ==
  LET hasErrors == \E n \in DOMAIN services : services[n] = "error"
      throws == \E n \in DOMAIN services : services[n] = "not_configured"
  IN  IF throws
        THEN [status |-> 503, state |-> "error", message |-> "Health check failed",
              services |-> << >>]
      ELSE IF hasErrors
        THEN [status |-> 503, state |-> "error", message |-> "", services |-> services]
      ELSE [status |-> 200, state |-> "ok", message |-> "", services |-> services]

\* The status of the database check by the outcome of the select
DbStatusOf(outcome) == IF outcome = "ok" THEN "ok" ELSE "error"

\* ------------------------------------------------- the handlers side by side

\* Requests to the generate handler in one run of SiteSpec.
MaxSiteReqs == 2
\* Waits for a scheduled email in one run of SiteSpec.
MaxWaits == 2

SiteMethods == {"GET", "POST", "DELETE"}
\* What an unsubscribe request carries as email: nothing, the address of
\* BodyA in capitals, and an address with no dot after the "@".
UnsubEmails == {Undefined, Str(<<"A", "@", "x", ".", "a">>), Str(<<"b", "@", "x">>)}
\* The environments: all set, one key missing, the database credentials missing
Envs ==
  {AllConfigured,
   [AllConfigured EXCEPT !.resend_api = FALSE],
   [AllConfigured EXCEPT !.database = FALSE]}

\* The response of unsubscribe, health or privacy
SiteResponse(handler, method, status, state, email, outcome, services) ==
  [handler |-> handler, method |-> method, status |-> status, state |-> state,
   email |-> email, outcome |-> outcome, services |-> services]

\* An email the provider holds is due: it is delivered before a further
\* request arrives.
MailDue == \E m \in scheduled : now >= m.at

\* A step of the generate handler answers nothing for the other handlers and
\* delivers no email.
NoSiteEvent == sresp' = NoSiteResp /\ delivered' = NoMail

\* A POST or another request to the generate handler; a user who submits
\* the form with a valid body subscribes again.
SiteStart(method, body) ==
  /\ nreq < MaxSiteReqs
  /\ health.pc = "idle" /\ ~MailDue
  /\ StartStep(1, method, "ip1", body, FALSE)
  /\ optedOut' = IF req'[1].pc \in {"hit_db", "miss_db"}
                   THEN optedOut \ {req'[1].data.email} ELSE optedOut
  /\ NoSiteEvent
  /\ UNCHANGED <<env, leads, scheduled, unsub, health, probe>>

\* The upsert of the generate handler settles, on either path.
SiteDbSettle(outcome) ==
  /\ leads' = LeadsAfterUpsert(leads, req[1].data, outcome)
  /\ HitDbSettleStep(1, outcome) \/ MissDbSettleStep(1, outcome)
  /\ NoSiteEvent
  /\ UNCHANGED <<env, scheduled, optedOut, unsub, health, probe>>

\* The LLM call of the generate handler resolves, rejects or times out.
SiteLLMSettle ==
  /\ \/ \E text \in LLMTexts(getLLMPrompt(req[1].data.productName,
                                         req[1].data.productFeatures)) :
          LLMResolveStep(1, text)
     \/ LLMRejectStep(1)
     \/ LLMTimeoutStep(1)
  /\ NoSiteEvent
  /\ UNCHANGED <<env, leads, scheduled, optedOut, unsub, health, probe>>

\* A send of the generate handler settles, on either path: the provider
\* keeps an accepted send with scheduled_at.
SiteEmailSettle(outcome) ==
  /\ req[1].pc \in {"hit_email", "email1", "email2", "email3"}
  /\ scheduled' = ScheduledAfterSend(scheduled, req[1].calls[Len(req[1].calls)],
                                     outcome, now)
  /\ HitEmailSettleStep(1, outcome) \/ MissEmailSettleStep(1, outcome)
  /\ NoSiteEvent
  /\ UNCHANGED <<env, leads, optedOut, unsub, health, probe>>

\* Time passes while the LLM call is pending.
SiteTick ==
  /\ req[1].pc = "llm"
  /\ TickStep
  /\ NoSiteEvent
  /\ UNCHANGED <<env, leads, scheduled, optedOut, unsub, health, probe>>

\* The times at which emails the provider holds fall due
DueTimes == {m.at : m \in {h \in scheduled : h.at > now}}

\* With no invocation in flight, time passes until the next scheduled email
\* falls due.
SiteWait ==
  /\ jumps < MaxWaits
  /\ req[1].pc = "idle" /\ unsub.pc = "idle" /\ health.pc = "idle"
  /\ DueTimes # {}
  /\ now' = CHOOSE t \in DueTimes : \A u \in DueTimes : t <= u
  /\ jumps' = jumps + 1
  /\ resp' = IdleReq
  /\ admitted' = [ip \in IPs |-> Recent(admitted[ip], now')]
  /\ NoSiteEvent
  /\ UNCHANGED <<rateLimitMap, responseCache, stripeLink, req, nreq, ticks,
                 env, leads, scheduled, optedOut, unsub, health, probe>>

\* The generate module's state, which the other handlers cannot reach
GenerateState == <<now, rateLimitMap, responseCache, stripeLink, req, admitted, ticks, jumps>>

\* The provider delivers a scheduled email that is due.
Deliver(m) ==
  /\ m \in scheduled /\ now >= m.at
  /\ scheduled' = scheduled \ {m}
  /\ delivered' = m
  /\ resp' = IdleReq /\ sresp' = NoSiteResp
  /\ UNCHANGED <<GenerateState, nreq, env, leads, optedOut, unsub, health, probe>>

\* A request to the unsubscribe handler arrives.
UnsubStart(method, email) ==
  /\ unsub.pc = "idle" /\ health.pc = "idle" /\ ~MailDue
  /\ LET u == UnsubscribeStart(method, email)
     IN  /\ unsub' = IF u.pc = "done" THEN IdleUnsub ELSE u
         /\ sresp' = IF u.pc = "done"
                       THEN SiteResponse("unsubscribe", method, u.status, u.state,
                                         u.email, "none", << >>)
                       ELSE NoSiteResp
  /\ resp' = IdleReq /\ delivered' = NoMail
  /\ UNCHANGED <<GenerateState, nreq, env, leads, scheduled, optedOut, health, probe>>

\* The update of the unsubscribe handler settles.
UnsubDbSettle(outcome) ==
  /\ unsub.pc = "update"
  /\ LET u == UnsubscribeSettle(unsub, outcome)
     IN  /\ sresp' = SiteResponse("unsubscribe", u.method, u.status, u.state,
                                  u.email, outcome, << >>)
         /\ optedOut' = IF u.status = 200 THEN optedOut \cup {ToLowerCase(u.email)}
                        ELSE optedOut
  /\ leads' = LeadsAfterUnsubscribe(leads, ToLowerCase(unsub.email), outcome)
  /\ unsub' = IdleUnsub
  /\ resp' = IdleReq /\ delivered' = NoMail
  /\ UNCHANGED <<GenerateState, nreq, env, scheduled, health, probe>>

\* No invocation of the handlers that write to the stores is in flight.
\* (The health and privacy functions share no state with them: the model
\* takes their requests at such moments only.)
Quiet == req[1].pc = "idle" /\ unsub.pc = "idle" /\ ~MailDue

\* A request to the health handler arrives: it answers 405, or starts the
\* database check, or reports at once when the database is not configured.
HealthStart(method) ==
  /\ Quiet
  /\ health.pc = "idle"
  /\ LET report == HealthReport(ServicesOf(env, "not_configured"))
     IN  IF method # "GET"
           THEN /\ sresp' = SiteResponse("health", method, 405, "error", <<>>, "none", << >>)
                /\ health' = health
         ELSE IF env.database
           THEN /\ sresp' = NoSiteResp
                /\ health' = [pc |-> "ping"]
         ELSE /\ sresp' = SiteResponse("health", method, report.status, report.state,
                                       <<>>, "none", report.services)
              /\ health' = health
  /\ resp' = IdleReq /\ delivered' = NoMail
  /\ UNCHANGED <<GenerateState, nreq, env, leads, scheduled, optedOut, unsub, probe>>

\* The select of the database check settles.
HealthDbSettle(outcome) ==
  /\ health.pc = "ping"
  /\ LET report == HealthReport(ServicesOf(env, DbStatusOf(outcome)))
     IN  sresp' = SiteResponse("health", "GET", report.status, report.state,
                               <<>>, outcome, report.services)
  /\ health' = IdleHealth
  /\ resp' = IdleReq /\ delivered' = NoMail
  /\ UNCHANGED <<GenerateState, nreq, env, leads, scheduled, optedOut, unsub, probe>>

\* The privacy handler: the policy page for a GET.
PrivacyResponse(method) ==
  IF method # "GET"
    THEN SiteResponse("privacy", method, 405, "Method Not Allowed", <<>>, "none", << >>)
    ELSE SiteResponse("privacy", method, 200, "Privacy Policy", <<>>, "none", << >>)

Privacy(method) ==
  /\ Quiet /\ health.pc = "idle"
  /\ sresp' = PrivacyResponse(method)
  /\ resp' = IdleReq /\ delivered' = NoMail
  /\ UNCHANGED <<GenerateState, nreq, env, leads, scheduled, optedOut, unsub, health, probe>>

\* SiteSpec: the four handlers of the deployment, the leads table and the
\* email provider, for one user of the form.
InitSite ==
  /\ GenerateLoaded
  /\ stripeLink = TRUE
  /\ env \in Envs
  /\ leads = << >>
  /\ scheduled = {}
  /\ delivered = NoMail
  /\ optedOut = {}
  /\ unsub = IdleUnsub
  /\ health = IdleHealth
  /\ sresp = NoSiteResp
  /\ probe = NoProbe

NextSite ==
  \/ \E method \in SiteMethods : SiteStart(method, BodyA)
  \/ \E outcome \in DbOutcomes : SiteDbSettle(outcome)
  \/ SiteLLMSettle
  \/ \E outcome \in EmailOutcomes : SiteEmailSettle(outcome)
  \/ SiteTick
  \/ SiteWait
  \/ \E m \in scheduled : Deliver(m)
  \/ \E method \in SiteMethods, email \in UnsubEmails : UnsubStart(method, email)
  \/ \E outcome \in DbOutcomes : UnsubDbSettle(outcome)
  \/ \E method \in SiteMethods : HealthStart(method)
  \/ \E outcome \in DbOutcomes : HealthDbSettle(outcome)
  \/ \E method \in SiteMethods : Privacy(method)

SiteSpec == InitSite /\ [][NextSite]_vars

\* ------------------------------------------------- validation and keying alone

\* The email length limit the documentation states
EMAIL_MAX == 254

\* A string of n times the character c
Rep(c, n) == [i \in 1..n |-> c]

\* Request bodies at the edges of validation and keying: markup only, over
\* every length limit, a colon in the name or in the features, features
\* that differ past the part the key keeps, an email that is not a string.
BodyMarkupName ==
  [productName |-> Str(<<"<", ">">>), productFeatures |-> Str(<<"x", "m">>),
   email |-> Str(EmailA)]
BodyMarkupFeatures ==
  [productName |-> Str(<<"A", "b">>), productFeatures |-> Str(<<"<", "NUL", ">">>),
   email |-> Str(EmailA)]
BodyLong ==
  [productName |-> Str(Rep("a", NAME_MAX + 1)),
   productFeatures |-> Str(Rep("x", FEATURES_MAX + 1)),
   email |-> Str(Rep("a", EMAIL_MAX - 3) \o <<"@", "x", ".", "a">>)]
BodyColonInFeatures ==
  [productName |-> Str(<<"a">>), productFeatures |-> Str(<<"b", ":", "x">>),
   email |-> Str(EmailA)]
BodyColonInName ==
  [productName |-> Str(<<"a", ":", "b">>), productFeatures |-> Str(<<"x">>),
   email |-> Str(EmailA)]
BodyTailA ==
  [productName |-> Str(<<"m">>),
   productFeatures |-> Str(Rep("x", KEY_FEATURES_MAX) \o <<"a">>),
   email |-> Str(EmailA)]
BodyTailB ==
  [productName |-> Str(<<"M", " ">>),
   productFeatures |-> Str(Rep("X", KEY_FEATURES_MAX) \o <<"b">>),
   email |-> Str(EmailB)]
BodyNumberEmail ==
  [productName |-> Str(<<"A", "b">>), productFeatures |-> Str(<<"x", "m">>),
   email |-> Num42]
BodyNumberName ==
  [productName |-> Num42, productFeatures |-> Str(<<"x", "m">>), email |-> Str(EmailA)]

ProbeBodies ==
  {BodyA, BodyB, BodyC, BodyBadEmail, Undefined, BodyMarkupName, BodyMarkupFeatures,
   BodyLong, BodyColonInFeatures, BodyColonInName, BodyTailA, BodyTailB,
   BodyNumberEmail, BodyNumberName}

NotRun == [outcome |-> "none"]
NoKey == <<"none">>

\* InputSpec: validateAndSanitizeInput and getCacheKey applied to two
\* request bodies a and b.
InitInput ==
  /\ GenerateLoaded
  /\ stripeLink = FALSE
  /\ env = AllConfigured
  /\ leads = << >>
  /\ scheduled = {}
  /\ delivered = NoMail
  /\ optedOut = {}
  /\ unsub = IdleUnsub
  /\ health = IdleHealth
  /\ sresp = NoSiteResp
  /\ probe \in {[phase |-> "input", a |-> x, b |-> y, va |-> NotRun, vb |-> NotRun,
                  ka |-> NoKey, kb |-> NoKey] : x \in ProbeBodies, y \in ProbeBodies}

InputFrame ==
  UNCHANGED <<GenerateState, resp, nreq, env, leads, scheduled, delivered, optedOut,
              unsub, health, sresp>>

ValidateA ==
  /\ probe.va = NotRun
  /\ probe' = [probe EXCEPT !.va = validateAndSanitizeInput(probe.a)]
  /\ InputFrame

ValidateB ==
  /\ probe.vb = NotRun
  /\ probe' = [probe EXCEPT !.vb = validateAndSanitizeInput(probe.b)]
  /\ InputFrame

KeyA ==
  /\ probe.va.outcome = "valid" /\ probe.ka = NoKey
  /\ probe' = [probe EXCEPT !.ka = getCacheKey(probe.va.data.productName,
                                                probe.va.data.productFeatures)]
  /\ InputFrame

KeyB ==
  /\ probe.vb.outcome = "valid" /\ probe.kb = NoKey
  /\ probe' = [probe EXCEPT !.kb = getCacheKey(probe.vb.data.productName,
                                                probe.vb.data.productFeatures)]
  /\ InputFrame

NextInput == ValidateA \/ ValidateB \/ KeyA \/ KeyB

InputSpec == InitInput /\ [][NextInput]_vars

\* ------------------------------------------------------- the unsubscribe link

\* The characters of the model's strings that encodeURIComponent escapes,
\* each with the two hexadecimal digits of its escape; it keeps letters,
\* digits and - _ . ! ~ * ' ( ) as they are.
EscapeTable ==
  {<<" ", <<"2", "0">>>>, <<"\t", <<"0", "9">>>>, <<"#", <<"2", "3">>>>,
   <<"$", <<"2", "4">>>>, <<"%", <<"2", "5">>>>, <<"&", <<"2", "6">>>>,
   <<"+", <<"2", "B">>>>, <<"/", <<"2", "F">>>>, <<":", <<"3", "A">>>>,
   <<"<", <<"3", "C">>>>, <<"=", <<"3", "D">>>>, <<">", <<"3", "E">>>>,
   <<"?", <<"3", "F">>>>, <<"@", <<"4", "0">>>>, <<"^", <<"5", "E">>>>}
Escaped == {p[1] : p \in EscapeTable}
EscapeOf(c) == (CHOOSE p \in EscapeTable : p[1] = c)[2]

\* encodeURIComponent(s)
RECURSIVE encodeURIComponent(_)
encodeURIComponent(s) ==
  IF s = <<>> THEN <<>>
  ELSE (IF s[1] \in Escaped THEN <<"%">> \o EscapeOf(s[1]) ELSE <<s[1]>>)
       \o encodeURIComponent(Tail(s))

\* The value of req.query.email for a request whose query string is
\* email=s: a "+" read as a blank, a well-formed escape as its character.
RECURSIVE QueryValue(_)
QueryValue(s) ==
  IF s = <<>> THEN <<>>
  ELSE IF s[1] = "+" THEN <<" ">> \o QueryValue(Tail(s))
  ELSE IF /\ s[1] = "%" /\ Len(s) >= 3
          /\ \E p \in EscapeTable : p[2] = <<s[2], s[3]>>
    THEN <<(CHOOSE p \in EscapeTable : p[2] = <<s[2], s[3]>>)[1]>>
         \o QueryValue(SubSeq(s, 4, Len(s)))
  ELSE <<s[1]>> \o QueryValue(Tail(s))

\* The query string value of the unsubscribe link that the three email
\* templates embed for the address they are rendered for
UnsubscribeLink(email) == encodeURIComponent(email)

\* Request bodies that differ in the email: a dot after the "@", no dot
\* after it, and a "+" before it.
LinkBodies == {BodyA, BodyB, BodyPlusEmail}

\* A send of the generate handler settles: the provider delivers an
\* accepted immediate email at once and keeps one with scheduled_at.
LinkEmailSettle(outcome) ==
  /\ req[1].pc \in {"hit_email", "email1", "email2", "email3"}
  /\ LET call == req[1].calls[Len(req[1].calls)]
     IN  /\ scheduled' = ScheduledAfterSend(scheduled, call, outcome, now)
         /\ delivered' = IF outcome = "ok" /\ call.kind = "immediate"
                           THEN [to |-> call.to, kind |-> call.kind, at |-> now]
                           ELSE NoMail
  /\ HitEmailSettleStep(1, outcome) \/ MissEmailSettleStep(1, outcome)
  /\ sresp' = NoSiteResp
  /\ UNCHANGED <<env, leads, optedOut, unsub, health, probe>>

\* The recipient of the email delivered in the last step follows its
\* unsubscribe link: a GET with the link's query string.
FollowLink ==
  /\ delivered # NoMail
  /\ UnsubStart("GET", Str(QueryValue(UnsubscribeLink(delivered.to))))

\* LinkSpec: users submit the form, the provider delivers the emails of the
\* generate handler, and their recipients follow the unsubscribe links.
InitLink ==
  /\ GenerateLoaded
  /\ stripeLink = TRUE
  /\ OthersIdle

NextLink ==
  \/ \E body \in LinkBodies : SiteStart("POST", body)
  \/ \E outcome \in DbOutcomes : SiteDbSettle(outcome)
  \/ SiteLLMSettle
  \/ \E outcome \in EmailOutcomes : LinkEmailSettle(outcome)
  \/ SiteTick
  \/ SiteWait
  \/ \E m \in scheduled : Deliver(m)
  \/ FollowLink
  \/ \E outcome \in DbOutcomes : UnsubDbSettle(outcome)

LinkSpec == InitLink /\ [][NextLink]_vars

\* ------------------------------------------------------------------- claims

\* The admissions of ip with a timestamp in the window (t - 60 s, t]
AdmittedIn(ip, t) ==
  {i \in 1..Len(admitted[ip]) :
     admitted[ip][i] > t - RATE_LIMIT_WINDOW /\ admitted[ip][i] <= t}

\* The instants a window is taken at: the clock's instants of the last minute.
\* (admitted keeps the admissions of the last minute; a window that ended
\* before holds none but those it held in the state of its own instant.)
WindowEnds == {t \in {now, now - TickMs, now - 2 * TickMs} : t >= 0}

\* C1: for every client IP and every instant t, at most 5 calls
\* checkRateLimit(ip) with a timestamp in (t - 60 s, t] returned true.
C1_AtMostFivePerWindow ==
  \A ip \in IPs : \A t \in WindowEnds :
    Cardinality(AdmittedIn(ip, t)) <= RATE_LIMIT_MAX_REQUESTS

\* C1's case: a client has 5 admissions in the last minute and its next
\* request has just been rejected.
C1_Witness ==
  /\ resp.status = 429
  /\ \E ip \in IPs : Cardinality(AdmittedIn(ip, now)) = RATE_LIMIT_MAX_REQUESTS

\* C4: a step in which the handler answers 429 leaves the rate-limit map and
\* the response cache as they were, makes no call to the database, the LLM or
\* the email provider, and touches no other invocation.
C4_RejectionChangesNothing ==
  [][resp'.status = 429 =>
       /\ rateLimitMap' = rateLimitMap
       /\ responseCache' = responseCache
       /\ admitted' = admitted
       /\ resp'.calls = <<>>
       /\ req' = req]_vars

\* C4's case: a request has just been rejected while the cache holds an
\* entry and the client's timestamps fill the rate-limit map.
C4_Witness ==
  /\ resp.status = 429
  /\ responseCache # << >>
  /\ \E ip \in DOMAIN rateLimitMap : Len(rateLimitMap[ip]) = RATE_LIMIT_MAX_REQUESTS

\* Whether the calls made hold one to the service
HasCall(calls, svc) == \E i \in 1..Len(calls) : calls[i].svc = svc

\* The invocation of slot r runs its first segment in this step and goes on
\* to the cache-hit path, or to any path past validation.
LooksUpHit(r) == req[r].pc = "idle" /\ req'[r].pc = "hit_db"
PassesValidation(r) == req[r].pc = "idle" /\ req'[r].pc \in {"hit_db", "miss_db"}

\* C2 as stated: a description is answered from the cache only while its
\* entry is less than 5 minutes old.
C2_ServedWithinTTL ==
  (resp.status = 200 /\ resp.via = "hit") => now - resp.cachedItem.timestamp < CACHE_TTL

\* C2, amended: the handler takes the cache-hit path only when, at the time
\* of the lookup, the entry of the request's key was stored strictly less
\* than 5 minutes earlier; on that path it never calls the LLM and answers
\* the entry's description; and no step of that path changes the cache, so
\* a hit never refreshes the entry's timestamp.
C2_HitOnlyWhenFreshAtLookup ==
  [][/\ \A r \in Slots :
          /\ LooksUpHit(r) =>
               /\ req'[r].cacheKey \in DOMAIN responseCache
               /\ req'[r].cachedItem = responseCache[req'[r].cacheKey]
               /\ now - req'[r].cachedItem.timestamp < CACHE_TTL
               /\ responseCache'[req'[r].cacheKey] = responseCache[req'[r].cacheKey]
          /\ (req[r].pc \in {"hit_db", "hit_email"} /\ req'[r] # req[r]) =>
               responseCache' = responseCache
          /\ req'[r].pc \in {"hit_db", "hit_email"} => ~HasCall(req'[r].calls, "llm")
     /\ (resp'.status = 200 /\ resp'.via = "hit") =>
          /\ ~HasCall(resp'.calls, "llm")
          /\ resp'.body = Trim(resp'.cachedItem.description)]_vars

\* C2's case: a description is answered from the cache 5 minutes or more
\* after it was stored, the lookup having found it younger.
C2_Witness ==
  /\ resp.status = 200 /\ resp.via = "hit"
  /\ now - resp.cachedItem.timestamp >= CACHE_TTL

\* A cache entry older than its TTL; a rate-limit entry whose timestamps are
\* all older than the window.
ExpiredCacheEntry(cache, k, t) == k \in DOMAIN cache /\ t - cache[k].timestamp > CACHE_TTL
ExpiredRateEntry(map, ip, t) ==
  ip \in DOMAIN map /\ \A i \in 1..Len(map[ip]) : t - map[ip][i] > RATE_LIMIT_WINDOW

CacheKeys ==
  {getCacheKey(Validated[b].data.productName, Validated[b].data.productFeatures) :
     b \in ValidBodies}

Services(calls) == [i \in 1..Len(calls) |-> calls[i].svc]
EmailKinds(calls) ==
  LET mails == SelectSeq(calls, LAMBDA c : c.svc = "email")
  IN  [i \in 1..Len(mails) |-> mails[i].kind]
IsPrefix(s, full) == Len(s) <= Len(full) /\ s = SubSeq(full, 1, Len(s))

\* An invocation past validation on the cache-miss path
OnMissPath(rec) ==
  \/ rec.pc \in {"miss_db", "llm", "email1", "email2", "email3"}
  \/ rec.pc = "done" /\ rec.via \in {"miss", "db_throw", "llm_empty", "llm_throw", "llm_timeout"}

\* The calls a cache-miss invocation has made when it stands at pc: each is
\* made when the one before has settled.
MissCallsAt(pc) ==
  CASE pc = "miss_db" -> <<"db">>
    [] pc = "llm" -> <<"db", "llm">>
    [] pc = "email1" -> <<"db", "llm", "email">>
    [] pc = "email2" -> <<"db", "llm", "email", "email">>
    [] pc = "email3" -> <<"db", "llm", "email", "email", "email">>

\* C5 as stated: on the cache-miss path the LLM is called first, then the
\* lead is upserted, then the emails are sent.
C5_LLMThenUpsertThenEmail ==
  /\ \A r \in Slots :
       OnMissPath(req[r]) =>
         IsPrefix(Services(req[r].calls), <<"llm", "db", "email", "email", "email">>)
  /\ OnMissPath(resp) =>
       IsPrefix(Services(resp.calls), <<"llm", "db", "email", "email", "email">>)

\* C5, amended: on the cache-miss path the validated input is first upserted
\* as a lead, then the LLM is called, then the emails are sent, each call
\* made only when the one before has settled.
C5_UpsertThenLLMThenEmail ==
  /\ \A r \in Slots :
       OnMissPath(req[r]) =>
         /\ Services(req[r].calls) = MissCallsAt(req[r].pc)
         /\ req[r].calls[1] = UpsertCall(req[r].data)
  /\ OnMissPath(resp) =>
       /\ IsPrefix(Services(resp.calls), <<"db", "llm", "email", "email", "email">>)
       /\ resp.calls[1] = UpsertCall(resp.data)

\* C5's case: a cache-miss request has been answered after all five calls.
C5_Witness ==
  /\ resp.status = 200 /\ resp.via = "miss"
  /\ Services(resp.calls) = <<"db", "llm", "email", "email", "email">>

\* The emails of STEP 3
FullSequence == IF stripeLink THEN <<"immediate", "twoHour", "sixHour">>
                ELSE <<"immediate", "twoHour">>
AllMailsTo(rec) ==
  \A i \in 1..Len(rec.calls) : rec.calls[i].svc = "email" => rec.calls[i].to = rec.data.email

\* C6 as stated: with no send failing, every request answered 200 has had
\* the immediate, the 2-hour and (iff the checkout link is set) the 6-hour
\* email requested, in that order.
C6_Every200GetsTheSequence ==
  (resp.status = 200 /\ ~resp.emailThrew) =>
    EmailKinds(resp.calls) = FullSequence /\ AllMailsTo(resp)

\* C6, amended: with no send failing, every request answered 200 on the
\* cache-miss path has had the immediate, the 2-hour and (iff the checkout
\* link is set) the 6-hour email requested for the validated address, in
\* that order; one answered 200 from the cache has had the immediate email
\* alone requested, and none if its upsert threw.
C6_SequenceOnMissImmediateOnHit ==
  (resp.status = 200 /\ ~resp.emailThrew) =>
    /\ AllMailsTo(resp)
    /\ resp.via = "miss" => EmailKinds(resp.calls) = FullSequence
    /\ resp.via = "hit" =>
         EmailKinds(resp.calls) = IF resp.dbThrew THEN <<>> ELSE <<"immediate">>

\* C6's case: with the checkout link set and no send failing, a cache-miss
\* request has been answered 200.
C6_Witness ==
  /\ resp.status = 200 /\ resp.via = "miss" /\ ~resp.emailThrew /\ stripeLink
  /\ Len(EmailKinds(resp.calls)) = 3

\* C7: a request answered 200 from the cache has upserted the lead and has
\* had the immediate email with the cached description requested.
C7_HitUpsertsAndMails ==
  (resp.status = 200 /\ resp.via = "hit") =>
    /\ resp.calls[1] = UpsertCall(resp.data)
    /\ \E i \in 1..Len(resp.calls) :
         resp.calls[i] = EmailCall("immediate", resp.data.email, resp.cachedItem.description)
    /\ resp.body = Trim(resp.cachedItem.description)

\* C8: when the awaited upsert settles, whatever its outcome, the handler
\* goes on (to the LLM call, or to the email of the cache-hit path) or
\* answers 200: a database failure never makes it answer an error.
C8_DbFailureNeverBlocks ==
  [][\A r \in Slots :
       (req[r].pc \in {"hit_db", "miss_db"} /\ req'[r] # req[r]) =>
         \/ req'[r].pc \in {"hit_email", "llm"}
         \/ resp'.status = 200]_vars

\* The description an invocation holds: the cached one, or the LLM's
Available(rec) == IF rec.via = "hit" THEN rec.cachedItem.description ELSE rec.description

\* C9: an invocation that holds a description (from the cache or from the
\* LLM) answers 200 with it, trimmed and non-empty, also when a send threw.
C9_EmailFailureNeverFails ==
  (resp.pc = "done" /\ (resp.description # <<>> \/ resp.cachedItem # NoItem \/ resp.emailThrew)) =>
    /\ resp.status = 200
    /\ resp.body = Trim(Available(resp))
    /\ resp.body # <<>>

\* C9's case: a send of the cache-miss path threw and the request was
\* answered 200.
C9_Witness == resp.emailThrew /\ resp.via = "miss" /\ resp.status = 200

C11_UnsubscribedWhenAnswered200 ==
  (/\ sresp.handler = "unsubscribe" /\ sresp.status = 200
   /\ ToLowerCase(sresp.email) \in DOMAIN leads) =>
    leads[ToLowerCase(sresp.email)].unsubscribed

\* C12: no follow-up email is delivered to an address that the unsubscribe
\* handler answered 200 for and that has not submitted the form since.
C12_NoFollowUpAfterUnsubscribe ==
  delivered.kind \in {"twoHour", "sixHour"} => delivered.to \notin optedOut

\* What the database check of the answered health request found
DbStatusFound ==
  IF env.database THEN DbStatusOf(sresp.outcome) ELSE "not_configured"

\* C13: a GET to the health handler is answered 503 'error' when the
\* database check is in error, 200 'degraded' when no service is in error
\* and one is not configured, and 200 'ok' with the services' details
\* otherwise.
C13_HealthReportsServices ==
  (sresp.handler = "health" /\ sresp.method = "GET") =>
    LET services == ServicesOf(env, DbStatusFound)
    IN  IF DbStatusFound = "error"
          THEN sresp.status = 503 /\ sresp.state = "error"
        ELSE IF \E n \in DOMAIN services : services[n] = "not_configured"
          THEN sresp.status = 200 /\ sresp.state = "degraded"
        ELSE sresp.status = 200 /\ sresp.state = "ok" /\ sresp.services = services

\* What a 405 leaves alone: the two maps, every invocation in flight, the
\* leads table and the emails the provider holds
Untouched ==
  UNCHANGED <<rateLimitMap, responseCache, admitted, req, unsub, health,
              leads, scheduled, optedOut>>

\* C15: a request by a method the handler does not support (generate: any
\* but POST; health and privacy: any but GET; unsubscribe: any but GET and
\* POST) is answered 405 in the step it arrives in, and a step that answers
\* 405 makes no call to a service, starts none, and changes neither map.
C15_UnsupportedMethod405 ==
  [][/\ \A method \in SiteMethods :
          /\ (method # "POST" /\ SiteStart(method, BodyA)) => resp'.status = 405
          /\ (method # "GET" /\ HealthStart(method)) =>
               sresp'.handler = "health" /\ sresp'.status = 405
          /\ (method # "GET" /\ Privacy(method)) =>
               sresp'.handler = "privacy" /\ sresp'.status = 405
          /\ \A email \in UnsubEmails :
               (method \notin {"GET", "POST"} /\ UnsubStart(method, email)) =>
                 sresp'.handler = "unsubscribe" /\ sresp'.status = 405
     /\ resp'.status = 405 => resp'.calls = <<>> /\ Untouched
     /\ sresp'.status = 405 => Untouched]_vars

\* C15's case: the unsubscribe handler has just answered 405 while the leads
\* table holds a row, the provider holds emails and the cache an entry.
C15_Witness ==
  /\ sresp.handler = "unsubscribe" /\ sresp.status = 405
  /\ leads # << >> /\ scheduled # {} /\ responseCache # << >>

\* The data validation accepted, of either probe
Accepted == {v.data : v \in {w \in {probe.va, probe.vb} : w.outcome = "valid"}}

\* No character of the string is a control character, "<" or ">"
Clean(str) == \A i \in 1..Len(str) : str[i] \notin ControlChars \cup HtmlChars

\* C14: the data validateAndSanitizeInput returns with valid = true has a
\* product name of at most 100 characters, features of at most 2000, an
\* email of at most 254, and no control character, "<" or ">" in any.
C14_LimitsAndSanitization ==
  \A d \in Accepted :
    /\ Len(d.productName) <= NAME_MAX
    /\ Len(d.productFeatures) <= FEATURES_MAX
    /\ Len(d.email) <= EMAIL_MAX
    /\ Clean(d.productName) /\ Clean(d.productFeatures) /\ Clean(d.email)

\* C17: the data validateAndSanitizeInput returns with valid = true has a
\* non-empty product name and non-empty features.
C17_AcceptedNonEmpty ==
  \A d \in Accepted : d.productName # <<>> /\ d.productFeatures # <<>>

\* Equal up to letter case and surrounding whitespace
SameUpToCase(x, y) == Trim(ToLowerCase(x)) = Trim(ToLowerCase(y))
\* Equal up to letter case and surrounding whitespace in the first 200 characters
SameHead(x, y) ==
  Slice0(Trim(ToLowerCase(x)), KEY_FEATURES_MAX) = Slice0(Trim(ToLowerCase(y)), KEY_FEATURES_MAX)
HasColon(str) == \E i \in 1..Len(str) : str[i] = ":"
BothKeyed == probe.ka # NoKey /\ probe.kb # NoKey

\* C19 as stated: two accepted requests share a cache key only if their
\* names and their features are equal up to case and surrounding whitespace.
C19_SameKeySameInput ==
  (BothKeyed /\ probe.ka = probe.kb) =>
    /\ SameUpToCase(probe.va.data.productName, probe.vb.data.productName)
    /\ SameUpToCase(probe.va.data.productFeatures, probe.vb.data.productFeatures)

\* C19, amended: two accepted requests whose names are equal up to case and
\* whose features are equal up to case in their first 200 characters share
\* a cache key; two that share a key and have no colon in their names have
\* names equal up to case and features equal up to case in their first 200
\* characters.
C19_SameKeySameHead ==
  BothKeyed =>
    LET na == probe.va.data.productName
        nb == probe.vb.data.productName
        fa == probe.va.data.productFeatures
        fb == probe.vb.data.productFeatures
    IN  /\ (SameUpToCase(na, nb) /\ SameHead(fa, fb)) => probe.ka = probe.kb
        /\ (probe.ka = probe.kb /\ ~HasColon(na) /\ ~HasColon(nb)) =>
             SameUpToCase(na, nb) /\ SameHead(fa, fb)

\* C19's case: two requests whose features differ past their 200th
\* character have the same key.
C19_Witness ==
  /\ BothKeyed /\ probe.ka = probe.kb
  /\ ~SameUpToCase(probe.va.data.productFeatures, probe.vb.data.productFeatures)
  /\ ~HasColon(probe.va.data.productName) /\ ~HasColon(probe.vb.data.productName)

\* The errors validateAndSanitizeInput returns
ValidationErrors ==
  {"Invalid email address format", "Product name is required and must be text",
   "Product features are required and must be text", "Product name cannot be empty",
   "Product features cannot be empty"}

\* C16: an admitted POST whose body fails validation (no body, an email or
\* a product field that is missing, not a string, malformed or empty) is
\* answered 400 with the validation error, with no call to the database,
\* the LLM or the email provider and the response cache unchanged.
C16_InvalidBodyAnswered400 ==
  [][resp'.via \in {"invalid", "validate_throw"} =>
       /\ resp'.status = 400
       /\ resp'.error \in ValidationErrors
       /\ resp'.calls = <<>>
       /\ responseCache' = responseCache]_vars

\* The descriptions a successful LLM call can leave in the cache under the
\* key: the trimmed, non-blank texts for the prompt of a request with it
StorableFor(key) ==
  UNION {{Trim(text) : text \in {t \in LLMTexts(getLLMPrompt(Validated[b].data.productName,
                                                           Validated[b].data.productFeatures)) :
                                  ~InvalidDescription(t)}} :
         b \in {c \in ValidBodies :
                  getCacheKey(Validated[c].data.productName,
                              Validated[c].data.productFeatures) = key}}

\* C18: every cache entry holds a non-empty, trimmed description that a
\* successful LLM call produced for a request with the entry's key; a step
\* in which a request is answered after its LLM call threw, timed out or
\* returned an empty or blank text leaves the cache unchanged.
C18_CacheHoldsLLMDescriptions ==
  /\ [](\A k \in DOMAIN responseCache :
          /\ responseCache[k].description # <<>>
          /\ Trim(responseCache[k].description) = responseCache[k].description
          /\ responseCache[k].description \in StorableFor(k))
  /\ [][resp'.via \in {"llm_throw", "llm_timeout", "llm_empty"} =>
         responseCache' = responseCache]_vars

\* C18's case: a request whose LLM call returned a blank text has just been
\* answered while the cache holds a description for its key.
C18_Witness ==
  /\ resp.via = "llm_empty"
  /\ resp.cacheKey \in DOMAIN responseCache

\* Two invocations whose LLM calls for one key are pending together
PendingTogether(r, q) ==
  /\ r # q
  /\ req[r].pc = "llm" /\ req[q].pc = "llm"
  /\ req[r].cacheKey = req[q].cacheKey

C21_LinkReachesUpdate ==
  (sresp.handler = "unsubscribe" /\ sresp.method = "GET") =>
    /\ sresp.outcome # "none"
    /\ sresp.status = 200 \/ sresp.outcome = "throw"

====
